---- MODULE Spec2Model ----
(***************************************************************************)
(* llm-bench (main.py): locate or fetch the localscore executable,         *)
(* optionally fetch a model, resolve the model path against MODEL_DIR and  *)
(* run localscore on it through /bin/sh, streaming its output.             *)
(*                                                                         *)
(* A path is a record [abs, parts]: abs tells whether it is absolute and   *)
(* parts is the sequence of its components.  Path('') is [FALSE, <<>>].    *)
(***************************************************************************)
EXTENDS Integers, Sequences, FiniteSets, TLC

VARIABLES
    PATH,            \* os.environ['PATH'] split on os.pathsep: a sequence of paths
    files,           \* what is named 'localscore' in each directory that may hold it
    modelFiles,      \* the absolute paths at which a model file exists
    args,            \* the parsed argparse namespace (model_path is model_path below)
    model_path,      \* args.model_path: the positional path, or the fetched one
    pc,              \* position of the process in main / run_localscore / __main__
    localscore_path, \* run_localscore: result of find_localscore()
    cmd_name,        \* run_localscore: the command word put in the shell line
    tried_paths,     \* run_localscore: tried_paths
    resolved_path,   \* run_localscore: model_path after line 176
    out,             \* what was printed, in order
    ret,             \* the value main() returned (NoCode: it has not returned)
    exitCode,        \* the exit status of the process (NoCode: still running)
    fault,           \* the exception propagating to __main__ ("none" if none)
    faultSeen,       \* the kinds of faults raised at any step of the run so far
    calls,           \* how often each component acted in this run
    fetchFailed,     \* download_model_from_hf returned None in this run
    proc,            \* the spawned subprocess: lines still to come, exit code
    dlLog            \* one record per direct invocation of download_localscore

vars == << PATH, files, modelFiles, args, model_path, pc, localscore_path,
           cmd_name, tried_paths, resolved_path, out, ret, exitCode, fault,
           faultSeen, calls, fetchFailed, proc, dlLog >>

(***************************************************************************)
(* Bounds of the model.                                                    *)
(***************************************************************************)
MaxPathLen == 2      \* longest PATH explored for find_localscore on its own
MaxDlPathLen == 1    \* longest PATH explored for download_localscore on its own
MaxCalls == 2        \* direct invocations of download_localscore in a row
MaxLines == 2        \* longest subprocess output explored

(***************************************************************************)
(* The environment: directories, configuration, path arithmetic.           *)
(***************************************************************************)
AbsP(parts) == [abs |-> TRUE, parts |-> parts]
RelP(parts) == [abs |-> FALSE, parts |-> parts]

\* Python's None / the empty string for a path-valued variable.
None == RelP(<< >>)

NoCode == -1

CWD == << "work" >>
HOME == << "home", "u" >>
LOCALSCORE_BIN == "localscore"
MODEL_DIR == AbsP(<< "work", "models" >>)

\* The directories that exist; any other path is not a directory.
ExistingDirs == { << >>, << "bin" >>, << "home" >>, << "home", "u" >>,
                  << "home", "u", "bin" >>, << "work" >>,
                  << "work", "models" >>, << "data" >> }

\* The directories in which something named localscore may lie.
LsDirs == { << "bin" >>, << "home", "u", "bin" >>, << "work" >> }

\* none: no such entry; noexec: regular file without the x bit;
\* exec: regular file with the x bit; dir: a directory of that name.
Kinds == { "none", "noexec", "exec", "dir" }

\* The entries a PATH is made of: /bin, ~/bin, the empty entry, /nodir, ../bin.
PathEntries == { AbsP(<< "bin" >>), RelP(<< "~", "bin" >>), RelP(<< >>),
                 AbsP(<< "nodir" >>), RelP(<< "..", "bin" >>) }

RECURSIVE SeqsUpTo(_, _)
\* The sequences over S of length 1 .. n.
SeqsUpTo(S, n) ==
    IF n = 0 THEN { }
    ELSE LET shorter == SeqsUpTo(S, n - 1) IN
         { << x >> : x \in S } \cup shorter
            \cup { Append(q, x) : q \in shorter, x \in S }

RECURSIVE Normalize(_, _)
\* Path.resolve()'s removal of '.' and '..' components, left to right.
Normalize(parts, acc) ==
    IF parts = << >> THEN acc
    ELSE LET h == Head(parts) IN
         IF h = "." THEN Normalize(Tail(parts), acc)
         ELSE IF h = ".."
              THEN Normalize(Tail(parts),
                             IF acc = << >> THEN acc
                             ELSE SubSeq(acc, 1, Len(acc) - 1))
              ELSE Normalize(Tail(parts), Append(acc, h))

\* Path.expanduser(): a leading '~' becomes the home directory.
ExpandUser(p) ==
    IF ~p.abs /\ p.parts # << >> /\ Head(p.parts) = "~"
    THEN AbsP(HOME \o Tail(p.parts))
    ELSE p

\* Path.resolve(): absolute (relative to the working directory), normalised.
Resolve(p) == AbsP(Normalize(IF p.abs THEN p.parts ELSE CWD \o p.parts, << >>))

\* pathlib's base / p: an absolute right operand replaces the base.
Join(base, p) == IF p.abs THEN p ELSE [abs |-> base.abs, parts |-> base.parts \o p.parts]

Parent(p) == [abs |-> p.abs, parts |-> SubSeq(p.parts, 1, Len(p.parts) - 1)]

IsDir(p) == Resolve(p).parts \in ExistingDirs

\* What lies at dir/localscore.
KindAt(fls, dir) == IF dir.parts \in LsDirs THEN fls[dir.parts] ELSE "none"

KindExists(k) == k # "none"
KindIsFile(k) == k \in { "noexec", "exec" }
\* os.access(p, os.X_OK): regular files with the x bit, and directories.
KindAccessX(k) == k \in { "exec", "dir" }

\* Path.exists() of a model path.
ModelExists(mfiles, p) == Resolve(p) \in mfiles

(***************************************************************************)
(* find_localscore                                                         *)
(***************************************************************************)
\* Mutant: the os.access(.., X_OK) test is left out.
IsExecutableFile_NoAccessCheck(k) == KindExists(k) /\ KindIsFile(k)

\* Lines 66 and 71: exists() and is_file() and os.access(.., X_OK).
IsExecutableFile(k) == KindExists(k) /\ KindIsFile(k) /\ KindAccessX(k)

RECURSIVE FindInPath(_, _)
\* Lines 61-67: the first PATH entry, in order, whose directory holds it.
FindInPath(path_dirs, fls) ==
    IF path_dirs = << >> THEN None
    ELSE LET path_dir == Resolve(ExpandUser(Head(path_dirs))) IN
         IF IsDir(path_dir) /\ IsExecutableFile(KindAt(fls, path_dir))
         THEN Join(path_dir, RelP(<< LOCALSCORE_BIN >>))
         ELSE FindInPath(Tail(path_dirs), fls)

\* Lines 56-74.
find_localscore(path_dirs, fls) ==
    LET inPath == FindInPath(path_dirs, fls) IN
    IF inPath # None THEN inPath
    ELSE LET local_path == Join(AbsP(CWD), RelP(<< LOCALSCORE_BIN >>)) IN
         IF IsExecutableFile(KindAt(fls, AbsP(CWD)))
         THEN Resolve(local_path)
         ELSE None

(***************************************************************************)
(* Printed output: one record per print() call.                            *)
(***************************************************************************)
Msg(tag) == [tag |-> tag, path |-> None, line |-> 0]
PathMsg(tag, p) == [tag |-> tag, path |-> p, line |-> 0]
LineMsg(n) == [tag |-> "line", path |-> None, line |-> n]

RECURSIVE PathMsgs(_, _)
PathMsgs(tag, ps) ==
    IF ps = << >> THEN << >>
    ELSE << PathMsg(tag, Head(ps)) >> \o PathMsgs(tag, Tail(ps))

(***************************************************************************)
(* download_localscore                                                     *)
(***************************************************************************)
NetOutcomes == { "ok", "http_error", "interrupt" }

\* Mutant: the availability check is made only when force is set.
AlreadyAvailable_Inverted(force, found) == force /\ found # None

\* Line 80: not force and find_localscore().
AlreadyAvailable(force, found) == ~force /\ found # None

\* Lines 77-103.  net is what httpx.get / raise_for_status does if reached.
\* The result tells what the call did: the exception it raised, the new
\* content of the directories, its prints, and how many locator probes,
\* network requests and file mutations (write, chmod, remove, rename) it made.
download_localscore(force, path_dirs, fls, net) ==
    LET probed == ~force
        cwdKind == fls[CWD]
    IN
    IF AlreadyAvailable(force, find_localscore(path_dirs, fls))
    THEN [raised |-> "none", fls |-> fls, probes |-> 1, net |-> 0, writes |-> 0,
          out |-> << Msg("localscore is already available") >>]
    ELSE IF net # "ok"
    THEN [raised |-> IF net = "interrupt" THEN "interrupt" ELSE "error",
          fls |-> fls, probes |-> IF probed THEN 1 ELSE 0, net |-> 1,
          writes |-> 0, out |-> << Msg("Downloading localscore") >>]
    ELSE IF cwdKind = "dir"
    THEN \* os.remove of a directory raises; the temporary file stays behind
         [raised |-> "error", fls |-> fls, probes |-> IF probed THEN 1 ELSE 0,
          net |-> 1, writes |-> 2, out |-> << Msg("Downloading localscore") >>]
    ELSE [raised |-> "none", fls |-> [fls EXCEPT ![CWD] = "exec"],
          probes |-> IF probed THEN 1 ELSE 0, net |-> 1,
          writes |-> IF KindExists(cwdKind) THEN 4 ELSE 3,
          out |-> << Msg("Downloading localscore"),
                     Msg("Downloaded and made executable") >>]

(***************************************************************************)
(* download_model_from_hf                                                  *)
(***************************************************************************)
FetchOutcomes == { "ok", "no_gguf", "error", "mkdir_error", "interrupt" }

\* The file hf_hub_download writes under local_dir=MODEL_DIR.
HfModelPath == Join(MODEL_DIR, RelP(<< "hf.gguf" >>))

\* Lines 106-144.  outcome is what the hub and the filesystem do.  The result's
\* path is None when the function returns None.
download_model_from_hf(outcome, mfiles) ==
    CASE outcome = "mkdir_error" ->
           [raised |-> "error", caught |-> FALSE, path |-> None, mfiles |-> mfiles,
            net |-> 0, out |-> << >>]
      [] outcome = "interrupt" ->
           [raised |-> "interrupt", caught |-> FALSE, path |-> None, mfiles |-> mfiles,
            net |-> 1, out |-> << Msg("Downloading model") >>]
      [] outcome = "no_gguf" ->
           [raised |-> "none", caught |-> FALSE, path |-> None, mfiles |-> mfiles,
            net |-> 1, out |-> << Msg("Downloading model"),
                                  Msg("Error: No GGUF files found") >>]
      [] outcome = "error" ->
           [raised |-> "none", caught |-> TRUE, path |-> None, mfiles |-> mfiles,
            net |-> 1, out |-> << Msg("Downloading model"),
                                  Msg("Error downloading model") >>]
      [] OTHER ->
           [raised |-> "none", caught |-> FALSE, path |-> HfModelPath,
            mfiles |-> mfiles \cup { Resolve(HfModelPath) }, net |-> 1,
            out |-> << Msg("Downloading model"),
                       PathMsg("Model downloaded to", HfModelPath) >>]

(***************************************************************************)
(* run_localscore: the pure parts                                          *)
(***************************************************************************)
\* Lines 156-159: the bare name when str(localscore_path.parent) is one of the
\* strings of PATH (an absolute, already normal entry), else the full path.
CmdName(path_dirs, found) ==
    IF \E i \in DOMAIN path_dirs : path_dirs[i] = Parent(found)
    THEN RelP(<< LOCALSCORE_BIN >>)
    ELSE found

\* Line 168: the path is relative and does not exist as given.
NeedsBase(mp, mfiles) == ~mp.abs /\ ~ModelExists(mfiles, mp)

\* Mutant: the two candidates are appended in the other order.
TriedPaths_Swapped(mp, mfiles) ==
    IF NeedsBase(mp, mfiles)
    THEN << Resolve(Join(MODEL_DIR, mp)), Resolve(mp) >>
    ELSE << >>

\* Lines 165-171: tried_paths.
TriedPaths(mp, mfiles) ==
    IF NeedsBase(mp, mfiles)
    THEN << Resolve(mp), Resolve(Join(MODEL_DIR, mp)) >>
    ELSE << >>

\* Lines 168-176: the path the existence check of line 178 is made on.
ResolveModelPath(mp, mfiles) ==
    IF NeedsBase(mp, mfiles) /\ ModelExists(mfiles, Join(MODEL_DIR, mp))
    THEN Resolve(Join(MODEL_DIR, mp))
    ELSE Resolve(mp)

\* Mutant: the list falls back to nothing when tried_paths is empty.
NotFoundDiagnostic_TriedOnly(tried, final) ==
    << Msg("Error: Model file not found. Looked for:") >>
        \o PathMsgs("  - ", tried)
        \o << PathMsg("MODEL_DIR is set to", MODEL_DIR) >>

\* Lines 179-182: the diagnostic of a model that was not found.
NotFoundDiagnostic(tried, final) ==
    << Msg("Error: Model file not found. Looked for:") >>
        \o PathMsgs("  - ", IF tried # << >> THEN tried ELSE << final >>)
        \o << PathMsg("MODEL_DIR is set to", MODEL_DIR) >>

(***************************************************************************)
(* The state of one run of the program.                                    *)
(***************************************************************************)
Components == { "download_localscore", "download_model", "run_localscore",
                "find", "resolve", "spawn", "net", "write" }

NoCalls == [c \in Components |-> 0]

NoProc == [pending |-> << >>, code |-> NoCode]

\* Exit statuses the benchmarking executable reports.
ExitCodes == { 0, 1, 3 }

ArgSets == [help : BOOLEAN, download_localscore : BOOLEAN,
            download_model : BOOLEAN, force : BOOLEAN]

NoArgs == [help |-> FALSE, download_localscore |-> FALSE,
           download_model |-> FALSE, force |-> FALSE]

\* The positional model paths explored: m.gguf, models/m.gguf, /data/m.gguf.
UserPaths == { RelP(<< "m.gguf" >>), RelP(<< "models", "m.gguf" >>),
               AbsP(<< "data", "m.gguf" >>) }

\* Where a model file may lie before the run.
InitialModelFiles == { AbsP(<< "work", "m.gguf" >>),
                       AbsP(<< "work", "models", "m.gguf" >>),
                       AbsP(<< "data", "m.gguf" >>) }

\* The PATH values and directory contents the whole program is run under.
RunPaths == { << AbsP(<< "bin" >>) >>, << RelP(<< >>) >>,
              << RelP(<< "~", "bin" >>), AbsP(<< "bin" >>) >> }

RunFiles == { f \in [LsDirs -> Kinds] :
                /\ f[<< "home", "u", "bin" >>] = "none"
                /\ f[<< "bin" >>] \in { "none", "noexec", "exec" } }

\* The locals of a run before anything ran.
InitLocals ==
    /\ localscore_path = None
    /\ cmd_name = None
    /\ tried_paths = << >>
    /\ resolved_path = None
    /\ out = << >>
    /\ ret = NoCode
    /\ exitCode = NoCode
    /\ fault = "none"
    /\ faultSeen = { }
    /\ calls = NoCalls
    /\ fetchFailed = FALSE
    /\ proc = NoProc
    /\ dlLog = << >>

\* The process after parser.parse_args() (line 223).
Init ==
    /\ PATH \in RunPaths
    /\ files \in RunFiles
    /\ modelFiles \in SUBSET InitialModelFiles
    /\ args \in ArgSets
    /\ model_path \in UserPaths \cup { None }
    /\ pc = "main"
    /\ InitLocals

env == << PATH, files, modelFiles >>
runLocals == << localscore_path, cmd_name, tried_paths, resolved_path >>

(***************************************************************************)
(* main                                                                    *)
(***************************************************************************)
\* Mutant: the help flag is never honoured.
HelpRequested_Never(a) == FALSE

\* Line 226: if args.help.
HelpRequested(a) == a.help

\* Lines 226-228.
HelpCheck ==
    /\ pc = "main"
    /\ IF HelpRequested(args)
       THEN /\ out' = Append(out, Msg("usage: __doc__"))
            /\ ret' = 0
            /\ pc' = "returned"
       ELSE /\ pc' = "download_localscore"
            /\ UNCHANGED << out, ret >>
    /\ UNCHANGED << env, args, model_path, runLocals, exitCode, fault, faultSeen,
                    calls, fetchFailed, proc, dlLog >>

\* Lines 231-232.
DownloadLocalscoreStep ==
    /\ pc = "download_localscore"
    /\ IF ~args.download_localscore
       THEN /\ pc' = "download_model"
            /\ UNCHANGED << files, out, fault, faultSeen, calls >>
       ELSE \E net \in NetOutcomes :
              LET r == download_localscore(args.force, PATH, files, net) IN
              /\ files' = r.fls
              /\ out' = out \o r.out
              /\ calls' = [calls EXCEPT !["download_localscore"] = @ + 1,
                                        !["find"] = @ + r.probes,
                                        !["net"] = @ + r.net,
                                        !["write"] = @ + r.writes]
              /\ fault' = r.raised
              /\ faultSeen' = IF r.raised = "none" THEN faultSeen
                              ELSE faultSeen \cup { r.raised }
              /\ pc' = IF r.raised = "none" THEN "download_model" ELSE "raised"
    /\ UNCHANGED << PATH, modelFiles, args, model_path, runLocals, ret, exitCode,
                    fetchFailed, proc, dlLog >>

\* Lines 234-240.
DownloadModelStep ==
    /\ pc = "download_model"
    /\ IF ~args.download_model
       THEN /\ pc' = "check_path"
            /\ UNCHANGED << modelFiles, model_path, out, ret, fault, faultSeen,
                            calls, fetchFailed >>
       ELSE \E outcome \in FetchOutcomes :
              LET r == download_model_from_hf(outcome, modelFiles) IN
              /\ modelFiles' = r.mfiles
              /\ calls' = [calls EXCEPT !["download_model"] = @ + 1,
                                        !["net"] = @ + r.net]
              /\ fault' = r.raised
              /\ faultSeen' = IF r.raised # "none" THEN faultSeen \cup { r.raised }
                              ELSE IF r.caught THEN faultSeen \cup { "error" }
                              ELSE faultSeen
              /\ IF r.raised # "none"
                 THEN /\ pc' = "raised"
                      /\ out' = out \o r.out
                      /\ UNCHANGED << model_path, ret, fetchFailed >>
                 ELSE IF r.path = None
                 THEN /\ out' = (out \o r.out) \o << Msg("Failed to download model.") >>
                      /\ ret' = 1
                      /\ fetchFailed' = TRUE
                      /\ pc' = "returned"
                      /\ UNCHANGED model_path
                 ELSE /\ out' = out \o r.out
                      /\ model_path' = IF model_path = None THEN r.path ELSE model_path
                      /\ pc' = "check_path"
                      /\ UNCHANGED << ret, fetchFailed >>
    /\ UNCHANGED << PATH, files, args, runLocals, exitCode, proc, dlLog >>

\* Mutant: the missing path is not noticed.
NoModelPath_Never(mp) == FALSE

\* Line 243: if not args.model_path.
NoModelPath(mp) == mp = None

\* Lines 243-248.
CheckModelPath ==
    /\ pc = "check_path"
    /\ IF NoModelPath(model_path)
       THEN /\ out' = Append(out, Msg("usage: print_help"))
            /\ ret' = 0
            /\ pc' = "returned"
       ELSE /\ pc' = "find"
            /\ UNCHANGED << out, ret >>
    /\ UNCHANGED << env, args, model_path, runLocals, exitCode, fault, faultSeen,
                    calls, fetchFailed, proc, dlLog >>

(***************************************************************************)
(* run_localscore                                                          *)
(***************************************************************************)
\* Mutant: a missing executable is not noticed.
ExecutableMissing_Never(found) == FALSE

\* Line 151: if not localscore_path.
ExecutableMissing(found) == found = None

\* Lines 150-159.
RunFind ==
    /\ pc = "find"
    /\ LET found == find_localscore(PATH, files) IN
       /\ localscore_path' = found
       /\ calls' = [calls EXCEPT !["run_localscore"] = @ + 1, !["find"] = @ + 1]
       /\ IF ExecutableMissing(found)
          THEN /\ out' = Append(out, Msg("Error: localscore not found"))
               /\ ret' = 1
               /\ pc' = "returned"
               /\ UNCHANGED cmd_name
          ELSE /\ cmd_name' = CmdName(PATH, found)
               /\ pc' = "resolve"
               /\ UNCHANGED << out, ret >>
    /\ UNCHANGED << env, args, model_path, tried_paths, resolved_path, exitCode,
                    fault, faultSeen, fetchFailed, proc, dlLog >>

\* Lines 161-185.
RunResolve ==
    /\ pc = "resolve"
    /\ LET tried == TriedPaths(model_path, modelFiles)
           final == ResolveModelPath(model_path, modelFiles)
       IN
       /\ tried_paths' = tried
       /\ resolved_path' = final
       /\ calls' = [calls EXCEPT !["resolve"] = @ + 1]
       /\ IF ~ModelExists(modelFiles, final)
          THEN /\ out' = out \o NotFoundDiagnostic(tried, final)
               /\ ret' = 1
               /\ pc' = "returned"
          ELSE /\ out' = Append(out, PathMsg("Running", final))
               /\ pc' = "spawn"
               /\ UNCHANGED ret
    /\ UNCHANGED << env, args, model_path, localscore_path, cmd_name, exitCode,
                    fault, faultSeen, fetchFailed, proc, dlLog >>

\* Line 192: sh.sh("-c", cmd_str, _iter=True, _err_to_out=True) starts the
\* shell; the subprocess will print n lines and then exit with status code.
RunSpawn ==
    /\ pc = "spawn"
    /\ \E n \in 0 .. MaxLines, code \in ExitCodes :
         proc' = [pending |-> [i \in 1 .. n |-> i], code |-> code]
    /\ calls' = [calls EXCEPT !["spawn"] = @ + 1]
    /\ pc' = "stream"
    /\ UNCHANGED << env, args, model_path, runLocals, out, ret, exitCode, fault,
                    faultSeen, fetchFailed, dlLog >>

\* Lines 192-193: one turn of the loop, the next line of the merged stream.
StreamLine ==
    /\ pc = "stream"
    /\ proc.pending # << >>
    /\ out' = Append(out, LineMsg(Head(proc.pending)))
    /\ proc' = [proc EXCEPT !.pending = Tail(@)]
    /\ UNCHANGED << env, args, model_path, runLocals, pc, ret, exitCode, fault,
                    faultSeen, calls, fetchFailed, dlLog >>

\* Lines 195-199: the stream ends; a non-zero status raises ErrorReturnCode.
StreamEnd ==
    /\ pc = "stream"
    /\ proc.pending = << >>
    /\ IF proc.code = 0
       THEN /\ ret' = 0
            /\ UNCHANGED out
       ELSE /\ out' = Append(out, Msg("Error running localscore"))
            /\ ret' = proc.code
    /\ pc' = "returned"
    /\ UNCHANGED << env, args, model_path, runLocals, exitCode, fault, faultSeen,
                    calls, fetchFailed, proc, dlLog >>

\* Lines 200-202: any other Exception inside the try block, at the spawn
\* (the shell cannot be started) or while the stream is read.
RunException ==
    /\ pc \in { "spawn", "stream" }
    /\ out' = Append(out, Msg("Error: <detail>"))
    /\ ret' = 1
    /\ faultSeen' = faultSeen \cup { "error" }
    /\ pc' = "returned"
    /\ UNCHANGED << env, args, model_path, runLocals, exitCode, fault, calls,
                    fetchFailed, proc, dlLog >>

\* An OSError out of find_localscore or of the path resolution (Path.cwd(),
\* Path.resolve()): lines 150-185 are outside every try block of main.
RunOSError ==
    /\ pc \in { "find", "resolve" }
    /\ fault' = "error"
    /\ faultSeen' = faultSeen \cup { "error" }
    /\ pc' = "raised"
    /\ UNCHANGED << env, args, model_path, runLocals, out, ret, exitCode, calls,
                    fetchFailed, proc, dlLog >>

\* Ctrl-C while main runs: KeyboardInterrupt is no Exception, so neither
\* line 142 nor line 200 catches it.
KeyboardInterrupt ==
    /\ pc \in { "main", "check_path", "find", "resolve", "spawn", "stream" }
    /\ fault' = "interrupt"
    /\ faultSeen' = faultSeen \cup { "interrupt" }
    /\ pc' = "raised"
    /\ UNCHANGED << env, args, model_path, runLocals, out, ret, exitCode, calls,
                    fetchFailed, proc, dlLog >>

(***************************************************************************)
(* __main__                                                                *)
(***************************************************************************)
\* Line 253: main() is called as a statement; the script then ends.
ExitStatusOfReturn(r) == 0

\* Lines 252-253, main returned.
MainReturns ==
    /\ pc = "returned"
    /\ exitCode' = ExitStatusOfReturn(ret)
    /\ pc' = "exited"
    /\ UNCHANGED << env, args, model_path, runLocals, out, ret, fault, faultSeen,
                    calls, fetchFailed, proc, dlLog >>

\* Lines 254-256.
HandleKeyboardInterrupt ==
    /\ pc = "raised"
    /\ fault = "interrupt"
    /\ out' = Append(out, Msg("Bye!"))
    /\ exitCode' = 0
    /\ pc' = "exited"
    /\ UNCHANGED << env, args, model_path, runLocals, ret, fault, faultSeen,
                    calls, fetchFailed, proc, dlLog >>

\* Lines 257-259.
HandleException ==
    /\ pc = "raised"
    /\ fault = "error"
    /\ out' = Append(out, Msg("Error: <detail>"))
    /\ exitCode' = 1
    /\ pc' = "exited"
    /\ UNCHANGED << env, args, model_path, runLocals, ret, fault, faultSeen,
                    calls, fetchFailed, proc, dlLog >>

Next ==
    \/ HelpCheck
    \/ DownloadLocalscoreStep
    \/ DownloadModelStep
    \/ CheckModelPath
    \/ RunFind
    \/ RunResolve
    \/ RunSpawn
    \/ StreamLine
    \/ StreamEnd
    \/ RunException
    \/ RunOSError
    \/ KeyboardInterrupt
    \/ MainReturns
    \/ HandleKeyboardInterrupt
    \/ HandleException

Spec == Init /\ [][Next]_vars

(***************************************************************************)
(* What the environment holds, stated without find_localscore.             *)
(***************************************************************************)
\* The directory PATH entry i names, as find_localscore reads it.
EntryDir(i) == Resolve(ExpandUser(PATH[i]))

\* PATH entry i names an existing directory that holds a regular,
\* execute-permitted file called localscore.
EntryHolds(i) ==
    /\ EntryDir(i).parts \in ExistingDirs
    /\ EntryDir(i).parts \in LsDirs
    /\ files[EntryDir(i).parts] = "exec"

CwdHolds == files[CWD] = "exec"

\* Some search-path directory or the working directory holds the executable.
Locatable == (\E i \in DOMAIN PATH : EntryHolds(i)) \/ CwdHolds

(***************************************************************************)
(* find_localscore called on its own, over every PATH up to MaxPathLen.    *)
(***************************************************************************)
InitFind ==
    /\ PATH \in SeqsUpTo(PathEntries, MaxPathLen)
    /\ files \in [LsDirs -> Kinds]
    /\ modelFiles = { }
    /\ args = NoArgs
    /\ model_path = None
    /\ pc = "find_call"
    /\ InitLocals

\* A call of find_localscore() (lines 56-74).
FindCall ==
    /\ pc = "find_call"
    /\ localscore_path' = find_localscore(PATH, files)
    /\ calls' = [calls EXCEPT !["find"] = @ + 1]
    /\ pc' = "find_done"
    /\ UNCHANGED << env, args, model_path, cmd_name, tried_paths, resolved_path,
                    out, ret, exitCode, fault, faultSeen, fetchFailed, proc, dlLog >>

NextFind == FindCall

SpecFind == InitFind /\ [][NextFind]_vars

(***************************************************************************)
(* download_localscore called on its own, up to MaxCalls times in a row.   *)
(***************************************************************************)
InitDownload ==
    /\ PATH \in SeqsUpTo(PathEntries, MaxDlPathLen)
    /\ files \in [LsDirs -> Kinds]
    /\ modelFiles = { }
    /\ args = NoArgs
    /\ model_path = None
    /\ pc = "download_call"
    /\ InitLocals

\* A call of download_localscore(force) (lines 77-103); dlLog records what the
\* call found and did.
DownloadCall ==
    /\ pc = "download_call"
    /\ Len(dlLog) < MaxCalls
    /\ \E force \in BOOLEAN, net \in NetOutcomes :
         LET r == download_localscore(force, PATH, files, net) IN
         /\ files' = r.fls
         /\ dlLog' = Append(dlLog,
                [force |-> force,
                 locatable |-> Locatable,
                 raised |-> r.raised, net |-> r.net, writes |-> r.writes,
                 changed |-> r.fls # files, out |-> r.out])
    /\ UNCHANGED << PATH, modelFiles, args, model_path, pc, runLocals, out, ret,
                    exitCode, fault, faultSeen, calls, fetchFailed, proc >>

NextDownload == DownloadCall

SpecDownload == InitDownload /\ [][NextDownload]_vars

(***************************************************************************)
(* Properties.                                                             *)
(***************************************************************************)
Last(q) == q[Len(q)]

Printed(tag) == \E i \in DOMAIN out : out[i].tag = tag

\* A run has ended without an exception reaching __main__.
EndedNormally == pc = "exited" /\ fault = "none"

\* The two candidate locations of the model path of this run.
OriginalCandidate == Resolve(model_path)
BaseCandidate == Resolve(Join(MODEL_DIR, model_path))

\* C1: whenever run_localscore was reached and returned, the value it
\* returned (the subprocess's exit code, or the synthesized 1) is the exit
\* status of the process.
C1_RunnerOutcomeIsExitCode ==
    (pc = "exited" /\ calls["run_localscore"] > 0 /\ ret # NoCode)
        => exitCode = ret

\* C2: after a failed model fetch the run is over with exit status 1, and no
\* locator probe, path resolution or spawn was made after the fetch (every
\* probe counted is the one download_localscore made before it).
C2_FailedFetchAbortsWithOne ==
    fetchFailed =>
        /\ pc \in { "returned", "exited" }
        /\ calls["run_localscore"] = 0
        /\ calls["resolve"] = 0
        /\ calls["spawn"] = 0
        /\ calls["find"] = calls["download_localscore"]
                             - (IF args.force THEN calls["download_localscore"] ELSE 0)
        /\ ret = 1
        /\ (pc = "exited" => exitCode = 1)

\* The part of C2 that is about what is executed: nothing runs after a failed
\* model fetch, and main returns 1.
C2_NothingFollowsFailedFetch ==
    fetchFailed =>
        /\ pc \in { "returned", "exited" }
        /\ calls["run_localscore"] = 0
        /\ calls["resolve"] = 0
        /\ calls["spawn"] = 0
        /\ ret = 1

\* C3: a subprocess is spawned only if the executable is locatable and the
\* resolved model path exists; when run_localscore returns with the
\* executable not locatable, or with the model at neither candidate
\* location, it returns 1 and has spawned nothing.
C3_SpawnOnlyWhenFoundAndModelExists ==
    /\ calls["spawn"] > 0 => (Locatable /\ resolved_path \in modelFiles)
    /\ ( /\ calls["run_localscore"] > 0
         /\ ret # NoCode
         /\ \/ ~Locatable
            \/ (OriginalCandidate \notin modelFiles /\ BaseCandidate \notin modelFiles) )
       => (ret = 1 /\ calls["spawn"] = 0)

C3_Witness ==
    /\ calls["spawn"] > 0
    /\ pc = "exited"
    /\ Locatable
    /\ resolved_path \in modelFiles

\* C4: with the help flag, whatever the other arguments, no component acts
\* (no fetch, no network or file access, no probe, no resolution, no spawn),
\* and a run that ends normally has printed the usage text alone and exits 0.
C4_HelpBypassesEverything ==
    args.help =>
        /\ calls = NoCalls
        /\ EndedNormally => (out = << Msg("usage: __doc__") >> /\ exitCode = 0)

C4_Witness ==
    /\ args.help
    /\ args.download_localscore
    /\ args.download_model
    /\ args.force
    /\ model_path # None
    /\ EndedNormally

\* C5 as stated: a run that gets past the fetch steps with no model path
\* ends printing the usage guidance with exit status 0, the locator, the
\* resolver and the Runner never having been invoked.
C5_UsageStateNeverProbes ==
    (EndedNormally /\ ~args.help /\ ~fetchFailed /\ model_path = None)
        => /\ Last(out) = Msg("usage: print_help")
           /\ exitCode = 0
           /\ calls["find"] = 0
           /\ calls["resolve"] = 0
           /\ calls["run_localscore"] = 0
           /\ calls["spawn"] = 0

\* C5 amended: as above, except that the locator is probed once, by
\* download_localscore's availability check, exactly when
\* --download-localscore is given without --force.
C5_UsageStateRunsNothing ==
    (EndedNormally /\ ~args.help /\ ~fetchFailed /\ model_path = None)
        => /\ Last(out) = Msg("usage: print_help")
           /\ exitCode = 0
           /\ calls["find"] = (IF args.download_localscore /\ ~args.force THEN 1 ELSE 0)
           /\ calls["resolve"] = 0
           /\ calls["run_localscore"] = 0
           /\ calls["spawn"] = 0

C5_Witness ==
    /\ EndedNormally
    /\ args.download_localscore
    /\ ~args.force
    /\ ~args.download_model
    /\ ~args.help
    /\ model_path = None
    /\ calls["find"] = 1

\* Of a logged call: it did nothing but print the informational message.
OnlyInformed(e) ==
    /\ e.net = 0
    /\ e.writes = 0
    /\ ~e.changed
    /\ e.raised = "none"
    /\ e.out = << Msg("localscore is already available") >>

C7_BaseDirectoryFallback ==
    ( /\ calls["resolve"] > 0
      /\ ~model_path.abs
      /\ AbsP(CWD \o model_path.parts) \notin modelFiles
      /\ AbsP(MODEL_DIR.parts \o model_path.parts) \in modelFiles )
    => /\ tried_paths = << AbsP(CWD \o model_path.parts),
                           AbsP(MODEL_DIR.parts \o model_path.parts) >>
       /\ resolved_path = AbsP(MODEL_DIR.parts \o model_path.parts)
       /\ ~Printed("Error: Model file not found. Looked for:")
       /\ Printed("Running")

C7_Witness ==
    /\ pc = "spawn"
    /\ model_path = RelP(<< "m.gguf" >>)
    /\ AbsP(<< "work", "m.gguf" >>) \notin modelFiles
    /\ resolved_path = AbsP(<< "work", "models", "m.gguf" >>)
    /\ Len(tried_paths) = 2

\* The paths listed by the not-found diagnostic.
ListedPaths == { out[i].path : i \in { j \in DOMAIN out : out[j].tag = "  - " } }

\* C8: for a model path, relative or absolute, that exists at neither
\* candidate location, run_localscore returns 1 and its diagnostic lists a
\* non-empty set of paths containing both candidates, followed by MODEL_DIR.
C8_NotFoundListsBothCandidates ==
    ( /\ calls["resolve"] > 0
      /\ OriginalCandidate \notin modelFiles
      /\ BaseCandidate \notin modelFiles )
    => /\ ret = 1
       /\ calls["spawn"] = 0
       /\ ListedPaths # { }
       /\ OriginalCandidate \in ListedPaths
       /\ BaseCandidate \in ListedPaths
       /\ Last(out) = PathMsg("MODEL_DIR is set to", MODEL_DIR)
       /\ \A i \in DOMAIN out : out[i].tag = "  - " => i < Len(out)

C8_Witness ==
    /\ pc = "exited"
    /\ calls["resolve"] > 0
    /\ ~model_path.abs
    /\ OriginalCandidate \notin modelFiles
    /\ BaseCandidate \notin modelFiles
    /\ OriginalCandidate # BaseCandidate
    /\ ListedPaths = { OriginalCandidate, BaseCandidate }

\* The PATH entries that hold the executable.
Holding == { i \in DOMAIN PATH : EntryHolds(i) }

\* C9: find_localscore returns the file of the first PATH entry, in order,
\* whose directory exists and holds a regular execute-permitted localscore;
\* only when no entry does, the one of the working directory; and None
\* exactly when neither has one.
C9_FirstMatchInPathOrder ==
    pc = "find_done" =>
        /\ Holding # { } =>
             \E i \in Holding :
                /\ \A j \in Holding : i <= j
                /\ localscore_path = AbsP(Append(EntryDir(i).parts, LOCALSCORE_BIN))
        /\ (Holding = { } /\ CwdHolds) =>
             localscore_path = AbsP(Append(CWD, LOCALSCORE_BIN))
        /\ localscore_path = None <=> ~Locatable

C9_Witness ==
    /\ pc = "find_done"
    /\ Len(PATH) = 2
    /\ EntryDir(1).parts \in LsDirs
    /\ files[EntryDir(1).parts] = "noexec"
    /\ EntryHolds(2)
    /\ CwdHolds
    /\ localscore_path = AbsP(Append(EntryDir(2).parts, LOCALSCORE_BIN))

\* C10: every fault raised at any step ends in the top-level handler: after
\* an interrupt the process says Bye! and exits 0; after any other fault it
\* prints Error: <detail> last and exits 1.
C10_EveryFaultReachesTopLevel ==
    pc = "exited" =>
        /\ "interrupt" \in faultSeen =>
             (exitCode = 0 /\ Last(out) = Msg("Bye!"))
        /\ "error" \in faultSeen =>
             (exitCode = 1 /\ fault = "error" /\ Last(out) = Msg("Error: <detail>"))

====
